---- MODULE Spec2Model ----
\* prometheus/models/sentinel.py as state machines. The circuit breaker
\* (class CircuitBreaker): its fields, its public methods, the lazy timeout
\* evaluation, the listener callbacks and the mutex. The ensemble scorer
\* (class SentinelAI): construction, fit, detect and detect_batch, by one
\* caller and by threads that take no lock.
EXTENDS Integers, Sequences, FiniteSets, TLC

\* ---------------------------------------------------------------- bounds
MaxTimeout == 1
MaxHalfOpenCalls == 2
MaxTime == 2
MaxExcess == 1
MaxRunSuccesses == 2
MaxListeners == 2
NumThreads == 2

\* ------------------------------------------------------ program constants
\* failure_threshold: int = 5
DefaultFailureThreshold == 5
\* CircuitBreaker(failure_threshold=3)
TestFailureThreshold == 3
\* _last_failure_time = None
NoTime == -1
\* _last_failure_reason = None
None == "None"

Severities == {"low", "medium", "high", "critical"}
\* the methods that evaluate the timeout before they answer
Reads == {"is_open", "state", "can_execute", "get_state"}
Reasons == {"r1", "r2"}

VARIABLES
    failure_threshold, recovery_timeout, half_open_max_calls,
    _failures, _successes_in_half_open, _state,
    _last_failure_time, _last_failure_reason, _lock,
    _on_open_callbacks, _on_close_callbacks, _on_half_open_callbacks,
    now,        \* the wall clock, read by datetime.now()
    call,       \* the last completed public call: method, argument, result, fields before it
    run,        \* since the breaker was last fresh: f failures, then s successes, then k failures
    episode,    \* the current half-open episode: admitted can_execute calls, recorded successes
    pc, op, arg, tmp, ret, snap,   \* per thread: position, method, argument, value loaded, result, fields at lock acquire
    done,       \* the calls begun since construction: record_failure calls, any other call, any overlap
    \* the ensemble scorer (class SentinelAI)
    constructed,                    \* "no" before SentinelAI(...), then "yes", or "raised" when __init__ raised
    contamination, ensemble_weights, _max_history,
    _is_fitted, _feature_mean, _feature_std, _iforest, _lof, _knn,
    fit_succeeded,                  \* whether a call of fit has run to its end
    _detection_history,
    scall,      \* the last completed call on the scorer: method, exception, results
    produced,   \* the results constructed so far; the n-th one carries timestamp n
    appended,   \* the timestamps of the results appended to the history, in the order of the appends
    precedes,   \* the pairs <<x, y>> of results where the call of x had returned before the call of y began
    fpc, fdata, \* the thread inside fit: its position, its training data
    dpc, dloc   \* per thread inside detect: its position, its local variables

config == <<failure_threshold, recovery_timeout, half_open_max_calls>>
fields == <<_failures, _successes_in_half_open, _state, _last_failure_time, _last_failure_reason>>
listeners == <<_on_open_callbacks, _on_close_callbacks, _on_half_open_callbacks>>
threads == <<pc, op, arg, tmp, ret, snap, done>>
detectors == <<_iforest, _lof, _knn>>
fitted == <<_is_fitted, _feature_mean, _feature_std, detectors, fit_succeeded>>
settings == <<constructed, contamination, ensemble_weights, _max_history>>
history == <<_detection_history, produced, appended, precedes>>
workers == <<fpc, fdata, dpc, dloc>>
scorer == <<settings, fitted, history, scall, workers>>
breaker == <<config, fields, _lock, listeners, now, call, run, episode, threads>>
vars == <<breaker, scorer>>

\* the failure counter is followed up to MaxExcess past the threshold
MaxFailures == failure_threshold + MaxExcess

Max(a, b) == IF a >= b THEN a ELSE b
Min(a, b) == IF a <= b THEN a ELSE b

\* ----------------------------------------------------- the breaker's fields
\* The fields as one value, with what a call has produced so far: log, the
\* listeners invoked, in order; errors, the listener exceptions caught and
\* logged; exc, whether an exception is propagating to the caller.
Self ==
    [state |-> _state, failures |-> _failures,
     successes_in_half_open |-> _successes_in_half_open,
     last_failure_time |-> _last_failure_time,
     last_failure_reason |-> _last_failure_reason,
     log |-> <<>>, errors |-> 0, exc |-> FALSE]

Fields(m) ==
    [state |-> m.state, failures |-> m.failures,
     successes_in_half_open |-> m.successes_in_half_open,
     last_failure_time |-> m.last_failure_time,
     last_failure_reason |-> m.last_failure_reason]

\* the fields as __init__ sets them
NoFields ==
    [state |-> "closed", failures |-> 0, successes_in_half_open |-> 0,
     last_failure_time |-> NoTime, last_failure_reason |-> None]

\* for callback in callbacks: try: callback(...) except Exception: logger.error
RECURSIVE InvokeNoCatch(_, _, _, _)
InvokeNoCatch(callbacks, event, i, m) ==
    IF i > Len(callbacks) THEN m
    ELSE LET m1 == [m EXCEPT !.log = Append(@, <<event, i>>)]
         IN  IF callbacks[i] = "raise"
             THEN [m1 EXCEPT !.exc = TRUE]
             ELSE InvokeNoCatch(callbacks, event, i + 1, m1)

RECURSIVE Invoke(_, _, _, _)
Invoke(callbacks, event, i, m) ==
    IF i > Len(callbacks) THEN m
    ELSE LET m1 == [m EXCEPT !.log = Append(@, <<event, i>>)]
         IN  IF callbacks[i] = "raise"
             THEN Invoke(callbacks, event, i + 1, [m1 EXCEPT !.errors = @ + 1])
             ELSE Invoke(callbacks, event, i + 1, m1)

_transition_to_open(m, reason) ==
    Invoke(_on_open_callbacks, "open", 1,
           [m EXCEPT !.state = "open", !.last_failure_reason = reason])

_transition_to_half_open_keep(m) ==
    Invoke(_on_half_open_callbacks, "half_open", 1,
           [m EXCEPT !.state = "half_open"])

_transition_to_half_open(m) ==
    Invoke(_on_half_open_callbacks, "half_open", 1,
           [m EXCEPT !.state = "half_open", !.successes_in_half_open = 0])

\* _transition_to_closed leaving the failure counter as it is
_transition_to_closed_keep(m) ==
    Invoke(_on_close_callbacks, "close", 1,
           [m EXCEPT !.state = "closed", !.successes_in_half_open = 0,
                     !.last_failure_reason = None])

_transition_to_closed(m) ==
    Invoke(_on_close_callbacks, "close", 1,
           [m EXCEPT !.state = "closed", !.failures = 0,
                     !.successes_in_half_open = 0,
                     !.last_failure_reason = None])

_check_state_transition_eager(m) ==
    IF m.state = "open" /\ m.last_failure_time # NoTime
    THEN _transition_to_half_open(m)
    ELSE m

_check_state_transition(m) ==
    IF m.state = "open" /\ m.last_failure_time # NoTime
    THEN LET elapsed == now - m.last_failure_time
         IN  IF elapsed >= recovery_timeout
             THEN _transition_to_half_open(m)
             ELSE m
    ELSE m

\* record_failure keeping the time of the opening failure while Open
record_failure_keep_time(m, reason) ==
    LET m1 == [m EXCEPT !.failures = @ + 1,
                        !.last_failure_time = IF m.state = "open" THEN @ ELSE now]
    IN  IF m1.state = "half_open"
        THEN _transition_to_open(m1, reason)
        ELSE IF m1.failures >= failure_threshold
        THEN _transition_to_open(m1, reason)
        ELSE m1

record_failure_closed_only(m, reason) ==
    LET m1 == [m EXCEPT !.failures = @ + 1, !.last_failure_time = now]
    IN  IF m1.state = "closed" /\ m1.failures >= failure_threshold
        THEN _transition_to_open(m1, reason)
        ELSE m1

record_failure_off_by_one(m, reason) ==
    LET m1 == [m EXCEPT !.failures = @ + 1, !.last_failure_time = now]
    IN  IF m1.state = "half_open"
        THEN _transition_to_open(m1, reason)
        ELSE IF m1.failures > failure_threshold
        THEN _transition_to_open(m1, reason)
        ELSE m1

record_failure(m, reason) ==
    LET m1 == [m EXCEPT !.failures = @ + 1, !.last_failure_time = now]
    IN  IF m1.state = "half_open"
        THEN _transition_to_open(m1, reason)
        ELSE IF m1.failures >= failure_threshold
        THEN _transition_to_open(m1, reason)
        ELSE m1

\* record_success evaluating the timeout first, as the reads do
record_success_checking(m) ==
    LET c == _check_state_transition(m)
    IN  IF c.state = "half_open"
        THEN LET m1 == [c EXCEPT !.successes_in_half_open = @ + 1]
             IN  IF m1.successes_in_half_open >= half_open_max_calls
                 THEN _transition_to_closed(m1)
                 ELSE m1
        ELSE IF c.state = "closed"
        THEN [c EXCEPT !.failures = Max(0, @ - 1)]
        ELSE c

record_success_no_floor(m) ==
    IF m.state = "half_open"
    THEN LET m1 == [m EXCEPT !.successes_in_half_open = @ + 1]
         IN  IF m1.successes_in_half_open >= half_open_max_calls
             THEN _transition_to_closed(m1)
             ELSE m1
    ELSE IF m.state = "closed"
    THEN [m EXCEPT !.failures = @ - 1]
    ELSE m

record_success(m) ==
    IF m.state = "half_open"
    THEN LET m1 == [m EXCEPT !.successes_in_half_open = @ + 1]
         IN  IF m1.successes_in_half_open >= half_open_max_calls
             THEN _transition_to_closed(m1)
             ELSE m1
    ELSE IF m.state = "closed"
    THEN [m EXCEPT !.failures = Max(0, @ - 1)]
    ELSE m

\* The value each read returns, from the fields after the lazy evaluation.
is_open_result(m) == m.state = "open"

state_result(m) == m.state

can_execute_result_closed_only(m) == m.state = "closed"

can_execute_result(m) == m.state # "open"

get_state_result(m) ==
    [is_open |-> m.state = "open",
     failures |-> m.failures,
     last_failure |-> m.last_failure_time,
     recovery_time |-> IF m.state = "open" /\ m.last_failure_time # NoTime
                       THEN m.last_failure_time + recovery_timeout
                       ELSE NoTime,
     reason |-> m.last_failure_reason]

\* reset doing nothing on a breaker that is Closed already
reset_unless_closed(m) ==
    IF m.state = "closed" THEN m ELSE _transition_to_closed(m)

reset(m) == _transition_to_closed(m)

\* severity_weight, in tenths: LOW 0.5, MEDIUM 1.0, HIGH 2.0, CRITICAL 3.0
severity_weight(severity) ==
    CASE severity = "low" -> 5
      [] severity = "medium" -> 10
      [] severity = "high" -> 20
      [] severity = "critical" -> 30

\* int(weight): truncation of a non-negative weight given in tenths
int_ceil(weight10) == (weight10 + 9) \div 10

int(weight10) == weight10 \div 10

\* for _ in range(n): self.record_failure(reason); an exception ends the loop
RECURSIVE record_failures(_, _, _)
record_failures(m, reason, n) ==
    IF n = 0 \/ m.exc THEN m
    ELSE record_failures(record_failure(m, reason), reason, n - 1)

\* f"{threat_type} - {severity} (score: ...)": one reason text per severity
DetectionReason(result) ==
    CASE result.severity = "low" -> "anomaly - low"
      [] result.severity = "medium" -> "anomaly - medium"
      [] result.severity = "high" -> "anomaly - high"
      [] result.severity = "critical" -> "anomaly - critical"

\* process_detection recording at least one failure for every anomaly
process_detection_at_least_one(m, result) ==
    IF result.is_anomaly
    THEN record_failures(m, DetectionReason(result),
                         Max(1, int(severity_weight(result.severity))))
    ELSE record_success(m)

process_detection(m, result) ==
    IF result.is_anomaly
    THEN record_failures(m, DetectionReason(result), int(severity_weight(result.severity)))
    ELSE record_success(m)

\* ------------------------------------------------------------ observation
NoRun == [ok |-> FALSE, f |-> 0, s |-> 0, k |-> 0]
FreshRun == [ok |-> TRUE, f |-> 0, s |-> 0, k |-> 0]
NoEpisode == [admitted |-> 0, successes |-> 0]
\* no breaker method has been called since the last tick or registration
NoCall ==
    [op |-> "none", arg |-> None, ret |-> None, at |-> 0, pre |-> Fields(Self),
     log |-> <<>>, errors |-> 0, raised |-> FALSE]

\* run after one record_failure / record_success received in state `before`
RunFailure(r, before) ==
    IF ~r.ok \/ before # "closed" THEN NoRun
    ELSE IF r.s = 0 THEN [r EXCEPT !.f = @ + 1] ELSE [r EXCEPT !.k = @ + 1]

RunSuccess(r, before) ==
    IF ~r.ok \/ before # "closed" \/ r.k > 0 \/ r.s >= MaxRunSuccesses THEN NoRun
    ELSE [r EXCEPT !.s = @ + 1]

RECURSIVE RunFailures(_, _, _, _)
RunFailures(r, m, reason, n) ==
    IF n = 0 THEN r
    ELSE RunFailures(RunFailure(r, m.state), record_failure(m, reason), reason, n - 1)

\* a breaker that is Closed with no failure counted is fresh again
RunAt(r, m) ==
    IF ~r.ok /\ m.state = "closed" /\ m.failures = 0 THEN FreshRun ELSE r

IsSuccess(method, argument) ==
    \/ method = "record_success"
    \/ (method = "process_detection" /\ ~argument.is_anomaly)

IsFailure(method, argument) ==
    \/ method = "record_failure"
    \/ (method = "process_detection" /\ argument.is_anomaly)

EpisodeAfter(method, argument, m) ==
    LET base == IF _state = "half_open" THEN episode ELSE NoEpisode
    IN  IF _state # "half_open" /\ m.state # "half_open" THEN NoEpisode
        ELSE IF IsSuccess(method, argument) /\ _state = "half_open"
        THEN [base EXCEPT !.successes = @ + 1]
        ELSE IF method = "can_execute" /\ m.state = "half_open"
        THEN [base EXCEPT !.admitted = Min(@ + 1, MaxHalfOpenCalls + 1)]
        ELSE base

\* The end of a public call made by a single caller: the fields take the
\* values the method computed, the mutex is free again (with self._lock).
Return(method, argument, result, m, r) ==
    /\ _state' = m.state
    /\ _failures' = m.failures
    /\ _successes_in_half_open' = m.successes_in_half_open
    /\ _last_failure_time' = m.last_failure_time
    /\ _last_failure_reason' = m.last_failure_reason
    /\ _lock' = 0
    /\ call' = [op |-> method, arg |-> argument, ret |-> result, at |-> now,
                pre |-> Fields(Self), log |-> m.log, errors |-> m.errors,
                raised |-> m.exc]
    /\ run' = RunAt(r, m)
    /\ episode' = EpisodeAfter(method, argument, m)
    /\ UNCHANGED <<scorer, config, listeners, now, threads>>

\* ------------------------------------------------- calls of a single caller
IsOpen ==
    /\ _lock = 0
    /\ LET m == _check_state_transition(Self)
       IN  Return("is_open", None, is_open_result(m), m, run)

State ==
    /\ _lock = 0
    /\ LET m == _check_state_transition(Self)
       IN  Return("state", None, state_result(m), m, run)

CanExecute ==
    /\ _lock = 0
    /\ LET m == _check_state_transition(Self)
       IN  Return("can_execute", None, can_execute_result(m), m, run)

GetState ==
    /\ _lock = 0
    /\ LET m == _check_state_transition(Self)
       IN  Return("get_state", None, get_state_result(m), m, run)

RecordFailure ==
    /\ _lock = 0
    /\ _failures + 1 <= MaxFailures
    /\ \E reason \in Reasons :
          Return("record_failure", reason, None, record_failure(Self, reason),
                 RunFailure(run, _state))

RecordSuccess ==
    /\ _lock = 0
    /\ Return("record_success", None, None, record_success(Self),
              RunSuccess(run, _state))

Reset ==
    /\ _lock = 0
    /\ Return("reset", None, None, reset(Self), FreshRun)

\* an anomalous result of any severity, or a non-anomalous one (severity LOW)
Results ==
    [is_anomaly : {TRUE}, severity : Severities]
        \cup {[is_anomaly |-> FALSE, severity |-> "low"]}

ProcessDetection ==
    /\ _lock = 0
    /\ \E result \in Results :
          /\ result.is_anomaly =>
                _failures + int(severity_weight(result.severity)) <= MaxFailures
          /\ Return("process_detection", result, None,
                    process_detection(Self, result),
                    IF result.is_anomaly
                    THEN RunFailures(run, Self, DetectionReason(result),
                                     int(severity_weight(result.severity)))
                    ELSE RunSuccess(run, _state))

\* datetime.now() advances
Tick ==
    /\ now < MaxTime
    /\ now' = now + 1
    /\ call' = [NoCall EXCEPT !.op = "tick", !.at = now + 1]
    /\ UNCHANGED <<scorer, config, fields, _lock, listeners, run, episode, threads>>

\* on_open / on_close / on_half_open: no lock is taken, the callback is appended.
\* A callback is what it does when it is invoked: it returns, or it raises.
Callbacks == {"ok", "raise"}

Registered ==
    Len(_on_open_callbacks) + Len(_on_close_callbacks) + Len(_on_half_open_callbacks)

OnOpen ==
    /\ Registered < MaxListeners
    /\ \E callback \in Callbacks :
          _on_open_callbacks' = Append(_on_open_callbacks, callback)
    /\ call' = [NoCall EXCEPT !.op = "on_open", !.at = now]
    /\ UNCHANGED <<scorer, config, fields, _lock, _on_close_callbacks,
                   _on_half_open_callbacks, now, run, episode, threads>>

OnClose ==
    /\ Registered < MaxListeners
    /\ \E callback \in Callbacks :
          _on_close_callbacks' = Append(_on_close_callbacks, callback)
    /\ call' = [NoCall EXCEPT !.op = "on_close", !.at = now]
    /\ UNCHANGED <<scorer, config, fields, _lock, _on_open_callbacks,
                   _on_half_open_callbacks, now, run, episode, threads>>

OnHalfOpen ==
    /\ Registered < MaxListeners
    /\ \E callback \in Callbacks :
          _on_half_open_callbacks' = Append(_on_half_open_callbacks, callback)
    /\ call' = [NoCall EXCEPT !.op = "on_half_open", !.at = now]
    /\ UNCHANGED <<scorer, config, fields, _lock, _on_open_callbacks,
                   _on_close_callbacks, now, run, episode, threads>>

Thresholds == {1, TestFailureThreshold, DefaultFailureThreshold}
Threads == 1 .. NumThreads

\* ------------------------------------------- the scorer before SentinelAI(...)
\* threshold: float | None: a value that was passed, or nothing
Missing == [given |-> FALSE, value |-> 0]
Some(x) == [given |-> TRUE, value |-> x]

NoScall == [op |-> "none", arg |-> <<>>, raised |-> None, ret |-> <<>>]

\* the local variables of a thread that is not inside detect
NoLocals ==
    [features |-> <<>>, threshold |-> Missing, before |-> {},
     mean |-> None, std |-> None, iforest |-> None, lof |-> None,
     knn |-> None, result |-> <<>>, raised |-> None]

\* No scorer exists yet, and no thread is inside one of its methods.
NoScorer ==
    /\ constructed = "no"
    /\ contamination = 0
    /\ ensemble_weights = <<>>
    /\ _max_history = 0
    /\ _is_fitted = FALSE
    /\ _feature_mean = None
    /\ _feature_std = None
    /\ _iforest = None
    /\ _lof = None
    /\ _knn = None
    /\ fit_succeeded = FALSE
    /\ _detection_history = <<>>
    /\ scall = NoScall
    /\ produced = 0
    /\ appended = <<>>
    /\ precedes = {}
    /\ fpc = "idle"
    /\ fdata = None
    /\ dpc = [t \in Threads |-> "idle"]
    /\ dloc = [t \in Threads |-> NoLocals]

InitBreaker ==
    /\ _failures = 0
    /\ _successes_in_half_open = 0
    /\ _state = "closed"
    /\ _last_failure_time = NoTime
    /\ _last_failure_reason = None
    /\ _lock = 0
    /\ _on_open_callbacks = <<>>
    /\ _on_close_callbacks = <<>>
    /\ _on_half_open_callbacks = <<>>
    /\ now = 0
    /\ call = NoCall
    /\ run = FreshRun
    /\ episode = NoEpisode
    /\ pc = [t \in Threads |-> "idle"]
    /\ op = [t \in Threads |-> "none"]
    /\ arg = [t \in Threads |-> None]
    /\ tmp = [t \in Threads |-> 0]
    /\ ret = [t \in Threads |-> None]
    /\ done = [record_failure |-> 0, other |-> FALSE, overlap |-> FALSE]
    /\ snap = [t \in Threads |-> NoFields]
    /\ NoScorer

Init ==
    /\ failure_threshold \in Thresholds
    /\ recovery_timeout \in 0 .. MaxTimeout
    /\ half_open_max_calls \in 1 .. MaxHalfOpenCalls
    /\ InitBreaker

Next ==
    \/ IsOpen
    \/ State
    \/ CanExecute
    \/ GetState
    \/ RecordFailure
    \/ RecordSuccess
    \/ Reset
    \/ ProcessDetection
    \/ Tick

Spec == Init /\ [][Next]_vars

\* ------------------------------------------- calls of concurrent threads
\* Each thread calls one method after the other. A call takes the mutex
\* (with self._lock), runs the method's statements one at a time, and gives
\* the mutex back; self._failures += 1 is a load and a store.
Methods == Reads \cup {"record_failure", "record_success", "reset"}

InFlight == Cardinality({t \in Threads : pc[t] # "idle" /\ op[t] = "record_failure"})

SetFields(m) ==
    /\ _state' = m.state
    /\ _failures' = m.failures
    /\ _successes_in_half_open' = m.successes_in_half_open
    /\ _last_failure_time' = m.last_failure_time
    /\ _last_failure_reason' = m.last_failure_reason

Goto(t, label) == pc' = [pc EXCEPT ![t] = label]

FirstStatement(method) ==
    CASE method \in Reads -> "check"
      [] method = "record_failure" -> "rf_load"
      [] method = "record_success" -> "rs_test"
      [] method = "reset" -> "reset"

Call(t) ==
    /\ pc[t] = "idle"
    /\ \E method \in Methods :
          /\ method = "record_failure" => _failures + InFlight + 1 <= MaxFailures
          /\ op' = [op EXCEPT ![t] = method]
          /\ \E a \in (IF method = "record_failure" THEN Reasons ELSE {None}) :
                arg' = [arg EXCEPT ![t] = a]
          /\ done' =
                IF done.other \/ method # "record_failure"
                THEN [record_failure |-> 0, other |-> TRUE, overlap |-> FALSE]
                ELSE [done EXCEPT !.record_failure = @ + 1,
                                  !.overlap = @ \/ \E u \in Threads : pc[u] # "idle"]
    /\ Goto(t, "lock")
    /\ UNCHANGED <<scorer, config, fields, _lock, listeners, now, call, run, episode,
                   tmp, ret, snap>>

CanAcquireUnlocked(t) == TRUE

CanAcquire(t) == _lock = 0

Acquire(t) ==
    /\ pc[t] = "lock"
    /\ CanAcquire(t)
    /\ _lock' = t
    /\ snap' = [snap EXCEPT ![t] = Fields(Self)]
    /\ Goto(t, FirstStatement(op[t]))
    /\ UNCHANGED <<scorer, config, fields, listeners, now, call, run, episode,
                   op, arg, tmp, ret, done>>

\* self._check_state_transition()
Check(t) ==
    /\ pc[t] = "check"
    /\ SetFields(_check_state_transition(Self))
    /\ Goto(t, "answer")
    /\ UNCHANGED <<scorer, config, _lock, listeners, now, call, run, episode,
                   op, arg, tmp, ret, snap, done>>

ResultOf(method, m) ==
    CASE method = "is_open" -> is_open_result(m)
      [] method = "state" -> state_result(m)
      [] method = "can_execute" -> can_execute_result(m)
      [] method = "get_state" -> get_state_result(m)
      [] OTHER -> None

\* return ...
Answer(t) ==
    /\ pc[t] = "answer"
    /\ ret' = [ret EXCEPT ![t] = ResultOf(op[t], Self)]
    /\ Goto(t, "unlock")
    /\ UNCHANGED <<scorer, config, fields, _lock, listeners, now, call, run, episode,
                   op, arg, tmp, snap, done>>

\* self._failures += 1: the load
RfLoad(t) ==
    /\ pc[t] = "rf_load"
    /\ tmp' = [tmp EXCEPT ![t] = _failures]
    /\ Goto(t, "rf_store")
    /\ UNCHANGED <<scorer, config, fields, _lock, listeners, now, call, run, episode,
                   op, arg, ret, snap, done>>

\* self._failures += 1: the store
RfStore(t) ==
    /\ pc[t] = "rf_store"
    /\ _failures' = tmp[t] + 1
    /\ Goto(t, "rf_time")
    /\ UNCHANGED <<scorer, config, _successes_in_half_open, _state, _last_failure_time,
                   _last_failure_reason, _lock, listeners, now, call, run,
                   episode, op, arg, tmp, ret, snap, done>>

\* self._last_failure_time = datetime.now()
RfTime(t) ==
    /\ pc[t] = "rf_time"
    /\ _last_failure_time' = now
    /\ Goto(t, "rf_test")
    /\ UNCHANGED <<scorer, config, _failures, _successes_in_half_open, _state,
                   _last_failure_reason, _lock, listeners, now, call, run,
                   episode, op, arg, tmp, ret, snap, done>>

\* if self._state == "half_open": ... elif self._failures >= self.failure_threshold: ...
RfTest(t) ==
    /\ pc[t] = "rf_test"
    /\ IF _state = "half_open" \/ _failures >= failure_threshold
       THEN SetFields(_transition_to_open(Self, arg[t]))
       ELSE UNCHANGED fields
    /\ Goto(t, "unlock")
    /\ UNCHANGED <<scorer, config, _lock, listeners, now, call, run, episode,
                   op, arg, tmp, ret, snap, done>>

\* if self._state == "half_open": ... elif self._state == "closed": ...
RsTest(t) ==
    /\ pc[t] = "rs_test"
    /\ IF _state = "half_open"
       THEN tmp' = [tmp EXCEPT ![t] = _successes_in_half_open] /\ Goto(t, "rs_store")
       ELSE IF _state = "closed"
       THEN tmp' = [tmp EXCEPT ![t] = _failures] /\ Goto(t, "rs_decay")
       ELSE UNCHANGED tmp /\ Goto(t, "unlock")
    /\ UNCHANGED <<scorer, config, fields, _lock, listeners, now, call, run, episode,
                   op, arg, ret, snap, done>>

\* self._successes_in_half_open += 1; if ... >= self.half_open_max_calls: close
RsStore(t) ==
    /\ pc[t] = "rs_store"
    /\ LET m == [Self EXCEPT !.successes_in_half_open = tmp[t] + 1]
       IN  IF m.successes_in_half_open >= half_open_max_calls
           THEN SetFields(_transition_to_closed(m))
           ELSE SetFields(m)
    /\ Goto(t, "unlock")
    /\ UNCHANGED <<scorer, config, _lock, listeners, now, call, run, episode,
                   op, arg, tmp, ret, snap, done>>

\* self._failures = max(0, self._failures - 1)
RsDecay(t) ==
    /\ pc[t] = "rs_decay"
    /\ _failures' = Max(0, tmp[t] - 1)
    /\ Goto(t, "unlock")
    /\ UNCHANGED <<scorer, config, _successes_in_half_open, _state, _last_failure_time,
                   _last_failure_reason, _lock, listeners, now, call, run,
                   episode, op, arg, tmp, ret, snap, done>>

\* self._transition_to_closed()
ResetStep(t) ==
    /\ pc[t] = "reset"
    /\ SetFields(_transition_to_closed(Self))
    /\ Goto(t, "unlock")
    /\ UNCHANGED <<scorer, config, _lock, listeners, now, call, run, episode,
                   op, arg, tmp, ret, snap, done>>

\* the end of the with block
Unlock(t) ==
    /\ pc[t] = "unlock"
    /\ _lock' = 0
    /\ Goto(t, "idle")
    /\ op' = [op EXCEPT ![t] = "none"]
    /\ arg' = [arg EXCEPT ![t] = None]
    /\ tmp' = [tmp EXCEPT ![t] = 0]
    /\ ret' = [ret EXCEPT ![t] = None]
    /\ snap' = [snap EXCEPT ![t] = NoFields]
    /\ UNCHANGED <<scorer, config, fields, listeners, now, call, run, episode, done>>

\* datetime.now() advances; a whole clock unit does not pass while a thread
\* is inside a method
TickOutside ==
    /\ _lock = 0
    /\ now < MaxTime
    /\ now' = now + 1
    /\ UNCHANGED <<scorer, config, fields, _lock, listeners, call, run, episode, threads>>

\* The breakers of test_half_open_after_timeout (failure_threshold=1,
\* recovery_timeout=1) and test_opens_on_failures (failure_threshold=3),
\* with half_open_max_calls=2, shared by the threads.
InitThreads ==
    /\ failure_threshold \in {1, TestFailureThreshold}
    /\ recovery_timeout = 1
    /\ half_open_max_calls = 2
    /\ InitBreaker

NextThreads ==
    \/ TickOutside
    \/ \E t \in Threads :
        \/ Call(t)
        \/ Acquire(t)
        \/ Check(t)
        \/ Answer(t)
        \/ RfLoad(t)
        \/ RfStore(t)
        \/ RfTime(t)
        \/ RfTest(t)
        \/ RsTest(t)
        \/ RsStore(t)
        \/ RsDecay(t)
        \/ ResetStep(t)
        \/ Unlock(t)

SpecThreads == InitThreads /\ [][NextThreads]_vars

\* The breaker of test_closes_on_success (failure_threshold=1,
\* recovery_timeout=0, half_open_max_calls=2) with listeners registered.
InitListeners ==
    /\ failure_threshold = 1
    /\ recovery_timeout = 0
    /\ half_open_max_calls = 2
    /\ InitBreaker

NextListeners ==
    \/ OnOpen
    \/ OnClose
    \/ OnHalfOpen
    \/ IsOpen
    \/ State
    \/ CanExecute
    \/ GetState
    \/ RecordFailure
    \/ RecordSuccess
    \/ Reset
    \/ ProcessDetection

SpecListeners == InitListeners /\ [][NextListeners]_vars

\* ------------------------------------------------ a listener that calls back
\* A listener may call a public method of the breaker from inside its
\* callback. The transitions invoke their listeners inside the with block,
\* so such a call asks for the mutex while its own thread holds it, and
\* threading.Lock is not reentrant.
Reentering == "calls"

\* the listeners that the statement thread t is about to run will invoke
CallbacksAt(t) ==
    CASE pc[t] = "check" ->
             IF _check_state_transition(Self).state # _state
             THEN _on_half_open_callbacks ELSE <<>>
      [] pc[t] = "rf_test" ->
             IF _state = "half_open" \/ _failures >= failure_threshold
             THEN _on_open_callbacks ELSE <<>>
      [] pc[t] = "rs_store" ->
             IF tmp[t] + 1 >= half_open_max_calls
             THEN _on_close_callbacks ELSE <<>>
      [] pc[t] = "reset" -> _on_close_callbacks
      [] OTHER -> <<>>

\* the fields as that statement's transition assigns them, which it does
\* before it invokes the listeners
TransitionAt(t) ==
    CASE pc[t] = "check" -> _check_state_transition(Self)
      [] pc[t] = "rf_test" -> _transition_to_open(Self, arg[t])
      [] pc[t] = "rs_store" ->
             _transition_to_closed([Self EXCEPT !.successes_in_half_open = tmp[t] + 1])
      [] pc[t] = "reset" -> _transition_to_closed(Self)

\* none of the listeners of thread t's next statement calls back
Quiet(t) == \A i \in 1 .. Len(CallbacksAt(t)) : CallbacksAt(t)[i] # Reentering

\* Thread t runs a transition one of whose listeners calls a method of the
\* breaker: the fields are assigned, the listener is invoked, and the call it
\* makes starts by asking for the mutex (with self._lock).
ListenerCalls(t) ==
    /\ ~Quiet(t)
    /\ SetFields(TransitionAt(t))
    /\ \E method \in Methods :
          /\ op' = [op EXCEPT ![t] = method]
          /\ \E a \in (IF method = "record_failure" THEN Reasons ELSE {None}) :
                arg' = [arg EXCEPT ![t] = a]
    /\ Goto(t, "lock")
    /\ UNCHANGED <<scorer, config, _lock, listeners, now, call, run, episode,
                   tmp, ret, snap, done>>

\* a breaker on which no method but on_open, on_close and on_half_open has
\* been called yet
Unused ==
    /\ _failures = 0
    /\ _successes_in_half_open = 0
    /\ _state = "closed"
    /\ _last_failure_time = NoTime
    /\ _last_failure_reason = None
    /\ _lock = 0
    /\ now = 0
    /\ call = NoCall
    /\ run = FreshRun
    /\ episode = NoEpisode
    /\ pc = [t \in Threads |-> "idle"]
    /\ op = [t \in Threads |-> "none"]
    /\ arg = [t \in Threads |-> None]
    /\ tmp = [t \in Threads |-> 0]
    /\ ret = [t \in Threads |-> None]
    /\ done = [record_failure |-> 0, other |-> FALSE, overlap |-> FALSE]
    /\ snap = [t \in Threads |-> NoFields]
    /\ NoScorer

\* The breaker of test_half_open_after_timeout (failure_threshold=1,
\* recovery_timeout=1) with half_open_max_calls=2; one listener that calls
\* back was registered, with on_open, on_close or on_half_open.
InitReentrant ==
    /\ failure_threshold = 1
    /\ recovery_timeout = 1
    /\ half_open_max_calls = 2
    /\ Unused
    /\ \E event \in {"open", "close", "half_open"} :
          /\ _on_open_callbacks = IF event = "open" THEN <<Reentering>> ELSE <<>>
          /\ _on_close_callbacks = IF event = "close" THEN <<Reentering>> ELSE <<>>
          /\ _on_half_open_callbacks =
                IF event = "half_open" THEN <<Reentering>> ELSE <<>>

NextReentrant ==
    \/ TickOutside
    \/ \E t \in Threads :
        \/ Call(t)
        \/ Acquire(t)
        \/ ListenerCalls(t)
        \/ Quiet(t) /\ Check(t)
        \/ Answer(t)
        \/ RfLoad(t)
        \/ RfStore(t)
        \/ RfTime(t)
        \/ Quiet(t) /\ RfTest(t)
        \/ RsTest(t)
        \/ Quiet(t) /\ RsStore(t)
        \/ RsDecay(t)
        \/ Quiet(t) /\ ResetStep(t)
        \/ Unlock(t)

SpecReentrant == InitReentrant /\ [][NextReentrant]_vars

\* ------------------------------------------- a breaker with close listeners
\* The breakers of test_half_open_after_timeout (failure_threshold=1,
\* recovery_timeout=1) and test_opens_on_failures (failure_threshold=3),
\* with half_open_max_calls=2, after on_close has registered one listener
\* that returns, or one that raises and then one that returns; a single
\* caller then calls the methods.
InitReset ==
    /\ failure_threshold \in {1, TestFailureThreshold}
    /\ recovery_timeout = 1
    /\ half_open_max_calls = 2
    /\ Unused
    /\ _on_open_callbacks = <<>>
    /\ _on_close_callbacks \in {<<"ok">>, <<"raise", "ok">>}
    /\ _on_half_open_callbacks = <<>>

SpecReset == InitReset /\ [][Next]_vars

\* ------------------------------------------------------------------ claims
\* what is_open would answer if it were read in the current state
IsOpenNow == is_open_result(_check_state_transition(Self))

InFailureStreak == call.op = "record_failure" /\ run.ok /\ run.s = 0 /\ run.k = 0

\* C1 (as stated): from a fresh Closed breaker, with only record_failure calls,
\* the breaker is Closed and is_open reads false while the count is below
\* failure_threshold, and it is Open and is_open reads true right after the
\* record_failure that brings the count to failure_threshold.
C1_OpensAtThresholdIsOpenTrue ==
    InFailureStreak =>
        /\ run.f = _failures
        /\ run.f < failure_threshold => _state = "closed" /\ ~IsOpenNow
        /\ run.f = failure_threshold => _state = "open" /\ IsOpenNow

\* C1 (amended): as C1, except that right after the opening failure the stored
\* state is Open and is_open reads true only if recovery_timeout has not
\* elapsed since that failure; with recovery_timeout = 0 it reads false.
C1_OpensAtThreshold ==
    InFailureStreak =>
        /\ run.f = _failures
        /\ run.f <= failure_threshold
        /\ run.f < failure_threshold => _state = "closed" /\ ~IsOpenNow
        /\ run.f = failure_threshold =>
              /\ _state = "open"
              /\ IsOpenNow <=> (now - _last_failure_time < recovery_timeout)
              /\ recovery_timeout = 0 => ~IsOpenNow

C1_Witness ==
    /\ InFailureStreak
    /\ failure_threshold = 3 /\ run.f = 3 /\ call.pre.failures = 2
    /\ call.pre.state = "closed" /\ _state = "open" /\ IsOpenNow

\* C2: a record_failure received while HalfOpen leaves the breaker Open,
\* whatever the number of successes already recorded in the episode.
C2_HalfOpenFailureReopens ==
    (call.op = "record_failure" /\ call.pre.state = "half_open") => _state = "open"

C2_Witness ==
    /\ call.op = "record_failure" /\ call.pre.state = "half_open"
    /\ call.pre.successes_in_half_open > 0 /\ episode.successes > 0
    /\ _state = "open"

\* C3: a success recorded while HalfOpen closes the breaker exactly when it is
\* the half_open_max_calls-th success of the current episode, and on closing
\* the failure counter and the half-open success counter are 0.
C3_ClosesAtMaxCallsOfEpisode ==
    (IsSuccess(call.op, call.arg) /\ call.pre.state = "half_open") =>
        /\ _state = "closed" <=> episode.successes = half_open_max_calls
        /\ _state # "closed" =>
              /\ _state = "half_open"
              /\ episode.successes < half_open_max_calls
              /\ _successes_in_half_open = episode.successes
        /\ _state = "closed" => _failures = 0 /\ _successes_in_half_open = 0

C3_Witness ==
    /\ call.op = "record_success" /\ call.pre.state = "half_open"
    /\ half_open_max_calls = 2 /\ episode.successes = 2
    /\ _state = "closed" /\ call.pre.failures > 0 /\ _failures = 0

\* C4: a read made while Open moves the breaker to HalfOpen before answering
\* when now - lastFailureTime >= recovery_timeout, and leaves it Open otherwise.
C4_LazyHalfOpenOnRead ==
    (call.op \in Reads /\ call.pre.state = "open") =>
        LET due == call.at - call.pre.last_failure_time >= recovery_timeout
            after == IF due THEN "half_open" ELSE "open"
        IN  /\ call.pre.last_failure_time # NoTime
            /\ _state = after
            /\ call.op = "is_open" => call.ret = ~due
            /\ call.op = "state" => call.ret = after
            /\ call.op = "can_execute" => call.ret = due
            /\ call.op = "get_state" => call.ret.is_open = ~due

C4_Witness ==
    /\ call.op = "state" /\ call.pre.state = "open" /\ recovery_timeout = 1
    /\ call.at - call.pre.last_failure_time = 1 /\ call.ret = "half_open"

\* C5: a success recorded while Closed lowers a positive failure counter by 1,
\* leaves a counter of 0 at 0 and leaves the breaker Closed; after f failures
\* (f < failure_threshold) followed by s successes on a fresh breaker, the
\* breaker opens exactly at failure number failure_threshold - max(0, f - s)
\* of the uninterrupted failures that follow.
C5_SuccessInClosedDecrements ==
    /\ (IsSuccess(call.op, call.arg) /\ call.pre.state = "closed") =>
          /\ _state = "closed"
          /\ _failures = IF call.pre.failures > 0 THEN call.pre.failures - 1 ELSE 0
          /\ _successes_in_half_open = call.pre.successes_in_half_open
          /\ _last_failure_time = call.pre.last_failure_time
    /\ (run.ok /\ call.pre.state = "closed"
          /\ call.op \in {"record_failure", "record_success", "process_detection"}) =>
          LET need == failure_threshold - Max(0, run.f - run.s)
          IN  /\ _state = "open" <=> run.k >= need
              /\ _state # "open" => _state = "closed" /\ _failures = failure_threshold - need + run.k

C5_Witness ==
    /\ call.op = "record_failure" /\ run.ok /\ failure_threshold = 3
    /\ run.f = 2 /\ run.s = 1 /\ run.k = 2 /\ _state = "open"

DetectionFailures(severity) ==
    CASE severity = "low" -> 0
      [] severity = "medium" -> 1
      [] severity = "high" -> 2
      [] severity = "critical" -> 3

\* C6: process_detection records 0 / 1 / 2 / 3 failures for an anomalous
\* result of severity LOW / MEDIUM / HIGH / CRITICAL and one success for a
\* non-anomalous result; with failure_threshold = 5 a fresh breaker is Closed
\* after one CRITICAL detection and Open after the second.
C6_DetectionWeights ==
    call.op = "process_detection" =>
        LET pre == call.pre
            critical == call.arg.is_anomaly /\ call.arg.severity = "critical"
        IN  /\ call.arg.is_anomaly =>
                  /\ _failures = pre.failures + DetectionFailures(call.arg.severity)
                  /\ _successes_in_half_open = pre.successes_in_half_open
            /\ (~call.arg.is_anomaly /\ pre.state = "closed") =>
                  _state = "closed" /\ _failures = Max(0, pre.failures - 1)
            /\ (~call.arg.is_anomaly /\ pre.state = "half_open") =>
                  \/ /\ _state = "half_open"
                     /\ _successes_in_half_open = pre.successes_in_half_open + 1
                     /\ _failures = pre.failures
                  \/ /\ _state = "closed"
                     /\ pre.successes_in_half_open + 1 = half_open_max_calls
            /\ (~call.arg.is_anomaly /\ pre.state = "open") =>
                  Fields(Self) = pre
            /\ (critical /\ failure_threshold = 5 /\ pre.state = "closed"
                    /\ pre.failures = 0) =>
                  _state = "closed" /\ _failures = 3
            /\ (critical /\ failure_threshold = 5 /\ pre.state = "closed"
                    /\ pre.failures = 3) =>
                  _state = "open" /\ _failures = 6

C6_Witness ==
    /\ call.op = "process_detection" /\ call.arg.is_anomaly
    /\ call.arg.severity = "critical" /\ failure_threshold = 5
    /\ call.pre.state = "closed" /\ call.pre.failures = 3
    /\ _state = "open" /\ _failures = 6

\* C7: can_execute answers False exactly when the state after the lazy
\* evaluation is Open, and apart from that evaluation changes no field.
C7_CanExecute ==
    call.op = "can_execute" =>
        /\ call.ret = (_state # "open")
        /\ call.ret = (_state \in {"closed", "half_open"})
        /\ _failures = call.pre.failures
        /\ _last_failure_time = call.pre.last_failure_time
        /\ _last_failure_reason = call.pre.last_failure_reason
        /\ \/ Fields(Self) = call.pre
           \/ call.pre.state = "open" /\ _state = "half_open"

C7_Witness ==
    /\ call.op = "can_execute" /\ call.pre.state = "open"
    /\ _state = "half_open" /\ call.ret = TRUE

\* C8: within one half-open episode can_execute answers True for at most
\* half_open_max_calls calls.
C8_HalfOpenAdmitsAtMostMaxCalls ==
    _state = "half_open" => episode.admitted <= half_open_max_calls

\* one pass over a callback list: every callback, in registration order
Pass(callbacks, event) == [i \in 1 .. Len(callbacks) |-> <<event, i>>]

Raising(callbacks) == Cardinality({i \in 1 .. Len(callbacks) : callbacks[i] = "raise"})

RECURSIVE Passes(_, _, _)
Passes(callbacks, event, n) ==
    IF n = 0 THEN <<>> ELSE Pass(callbacks, event) \o Passes(callbacks, event, n - 1)

\* the number of transitions into Open a call made, from the fields before
\* and after it: one per recorded failure that found the breaker HalfOpen or
\* brought or kept the count at failure_threshold or more
OpenTransitions ==
    Cardinality({c \in (call.pre.failures + 1) .. _failures :
                    \/ c >= failure_threshold
                    \/ (c = call.pre.failures + 1 /\ call.pre.state = "half_open")})

\* C10: when listeners raise, no call propagates an exception, every listener
\* of each transition made is still invoked, in order, each exception is
\* logged, the fields are those of the transition, and the mutex is free.
C10_ListenerErrorsSwallowed ==
    /\ ~call.raised
    /\ _lock = 0
    /\ call.op \in Reads =>
          IF call.pre.state = "open" /\ _state = "half_open"
          THEN /\ call.log = Pass(_on_half_open_callbacks, "half_open")
               /\ call.errors = Raising(_on_half_open_callbacks)
               /\ _successes_in_half_open = 0
               /\ _failures = call.pre.failures
          ELSE call.log = <<>> /\ call.errors = 0 /\ Fields(Self) = call.pre
    /\ call.op = "reset" =>
          /\ call.log = Pass(_on_close_callbacks, "close")
          /\ call.errors = Raising(_on_close_callbacks)
          /\ _state = "closed" /\ _failures = 0 /\ _successes_in_half_open = 0
    /\ IsSuccess(call.op, call.arg) =>
          IF call.pre.state = "half_open"
                /\ call.pre.successes_in_half_open + 1 >= half_open_max_calls
          THEN /\ call.log = Pass(_on_close_callbacks, "close")
               /\ call.errors = Raising(_on_close_callbacks)
               /\ _state = "closed" /\ _failures = 0
               /\ _successes_in_half_open = 0
          ELSE call.log = <<>> /\ call.errors = 0 /\ _state = call.pre.state
    /\ IsFailure(call.op, call.arg) =>
          /\ call.log = Passes(_on_open_callbacks, "open", OpenTransitions)
          /\ call.errors = OpenTransitions * Raising(_on_open_callbacks)
          /\ OpenTransitions > 0 => _state = "open"
          /\ OpenTransitions = 0 => _state = call.pre.state
          /\ call.op = "record_failure" => _failures = call.pre.failures + 1

C10_Witness ==
    /\ call.op = "record_failure" /\ call.pre.state = "closed" /\ _state = "open"
    /\ _on_open_callbacks = <<"raise", "ok">>
    /\ call.log = <<<<"open", 1>>, <<"open", 2>>>>
    /\ call.errors = 1 /\ ~call.raised /\ _lock = 0

\* what a call does when it runs alone, from the fields m
Alone(method, argument, m) ==
    CASE method \in Reads -> _check_state_transition(m)
      [] method = "record_failure" -> record_failure(m, argument)
      [] method = "record_success" -> record_success(m)
      [] method = "reset" -> reset(m)

AsSelf(f) == [Self EXCEPT !.state = f.state, !.failures = f.failures,
                          !.successes_in_half_open = f.successes_in_half_open,
                          !.last_failure_time = f.last_failure_time,
                          !.last_failure_reason = f.last_failure_reason]

AllIdle == \A t \in Threads : pc[t] = "idle"

\* C9: with threads calling concurrently, at most one thread is inside a
\* method; when a call gives the mutex back the fields and its result are
\* those of the call run alone on the fields it found when it took the mutex;
\* and K record_failure calls on a new breaker, with no other call, leave the
\* failure count K and the breaker Open iff K >= failure_threshold.
C9_CallsAreAtomic ==
    /\ Cardinality({t \in Threads : pc[t] \notin {"idle", "lock"}}) <= 1
    /\ \A t \in Threads :
          pc[t] \notin {"idle", "lock"} => _lock = t
    /\ \A t \in Threads :
          pc[t] = "unlock" =>
              LET m == Alone(op[t], arg[t], AsSelf(snap[t]))
              IN  /\ Fields(Self) = Fields(m)
                  /\ op[t] \in Reads => ret[t] = ResultOf(op[t], m)
    /\ (AllIdle /\ ~done.other) =>
          /\ _failures = done.record_failure
          /\ _state = IF done.record_failure >= failure_threshold
                      THEN "open" ELSE "closed"

C9_Witness ==
    /\ AllIdle /\ ~done.other /\ done.overlap
    /\ failure_threshold = 3 /\ done.record_failure = 3
    /\ _failures = 3 /\ _state = "open"

\* ===================================================== the ensemble scorer
\* Class SentinelAI. Floats are fixed-point numbers: weights, contamination
\* and thresholds count units of 1/Unit; scores, which are products of a
\* weight and a rescaled detector score, count units of 1/One.
Unit == 10000
One == Unit * Unit
\* contamination: float = 0.1
DefaultContamination == 1000
\* if abs(sum(self.ensemble_weights) - 1.0) > 0.001
Tolerance == 10
\* self.config.get("max_history", 1000)
DefaultMaxHistory == 1000
\* self.ensemble_weights = ensemble_weights or [0.4, 0.3, 0.3]
DefaultWeights == <<4000, 3000, 3000>>

\* the capacities a caller configures are 1 .. MaxHistory
MaxHistory == 1
\* the results a scorer constructs are followed up to MaxDetections
MaxDetections == 2
\* the arrays passed to detect and detect_batch have 1 .. MaxBatch rows
MaxBatch == 2
\* the scores handed to the severity ladder lie ScoreSteps to the unit
ScoreSteps == 20

Abs(x) == IF x >= 0 THEN x ELSE 0 - x

RECURSIVE sum(_)
sum(w) == IF w = <<>> THEN 0 ELSE Head(w) + sum(Tail(w))

\* The fields of the scorer as one value, with what a call has produced so
\* far: raised, the exception propagating to the caller; ret, the results.
Scorer ==
    [contamination |-> contamination, ensemble_weights |-> ensemble_weights,
     max_history |-> _max_history, is_fitted |-> _is_fitted,
     feature_mean |-> _feature_mean, feature_std |-> _feature_std,
     iforest |-> _iforest, lof |-> _lof, knn |-> _knn,
     detection_history |-> _detection_history, produced |-> produced,
     raised |-> None, ret |-> <<>>]

\* ------------------------------------------------------------ construction
\* the fields before __init__ has assigned any of them
NewScorer ==
    [contamination |-> 0, ensemble_weights |-> <<>>, max_history |-> 0,
     is_fitted |-> FALSE, feature_mean |-> None, feature_std |-> None,
     iforest |-> None, lof |-> None, knn |-> None,
     detection_history |-> <<>>, produced |-> 0, raised |-> None,
     ret |-> <<>>]

\* x or y, on lists: an empty list counts as no list
OrList(x, y) == IF x = <<>> THEN y ELSE x

\* SentinelAI(contamination, ensemble_weights, config): the weights are
\* checked by their sum alone; max_history is config["max_history"] when
\* the key is there.
__init__unchecked(c, w, max_history) ==
    [NewScorer EXCEPT !.contamination = c,
                   !.ensemble_weights = OrList(w, DefaultWeights),
                   !.max_history = IF max_history.given THEN max_history.value
                                   ELSE DefaultMaxHistory]

__init__(c, w, max_history) ==
    IF Abs(sum(OrList(w, DefaultWeights)) - Unit) > Tolerance
    THEN [NewScorer EXCEPT !.raised = "ValueError"]
    ELSE [NewScorer EXCEPT !.contamination = c,
                        !.ensemble_weights = OrList(w, DefaultWeights),
                        !.max_history = IF max_history.given THEN max_history.value
                                        ELSE DefaultMaxHistory]

\* ---------------------------------------------------------------- fitting
\* The training sets: two sets of samples the detectors accept, and one
\* (samples holding NaN) on which the first detector's fit raises.
TrainingData == {"d1", "d2", "nan"}

\* _build_detectors: three new detectors, none of them fitted
_build_detectors(s) ==
    [s EXCEPT !.iforest = "unfitted", !.lof = "unfitted", !.knn = "unfitted"]

\* fit(data): the fitted flag is raised before the detectors are trained
fit_flag_first(s, data) ==
    LET stats == [s EXCEPT !.feature_mean = data, !.feature_std = data,
                           !.is_fitted = TRUE]
        built == _build_detectors(stats)
    IN  IF data = "nan"
        THEN [built EXCEPT !.raised = "ValueError"]
        ELSE [built EXCEPT !.iforest = data, !.lof = data, !.knn = data]

\* fit(data): statistics, new detectors, their training, then the flag
fit(s, data) ==
    LET stats == [s EXCEPT !.feature_mean = data, !.feature_std = data]
        built == _build_detectors(stats)
    IN  IF data = "nan"
        THEN [built EXCEPT !.raised = "ValueError"]
        ELSE [built EXCEPT !.iforest = data, !.lof = data, !.knn = data,
                           !.is_fitted = TRUE]

\* ---------------------------------------------------------------- scoring
\* The feature vectors: one the detectors find ordinary, one with a hashrate
\* spike, and the far outlier (every feature at 10.0).
Rows == {"normal", "spike", "outlier"}
Detectors == <<"iforest", "lof", "knn">>

\* detector.decision_function on one row, the row normalised with the mean
\* and std stored when they were read: the raw score of a detector trained
\* on the set trained. The second training set holds spikes, so a detector
\* trained on it finds a spike ordinary; a row normalised with the statistics
\* of another training set looks shifted by one.
RawScore(name, trained, mean, std, row) ==
    LET raw == CASE row = "normal" -> 0
                 [] row = "outlier" -> 2
                 [] row = "spike" ->
                        IF trained = "d2" THEN 0
                        ELSE IF name = "iforest" THEN 2
                        ELSE IF name = "lof" THEN 1
                        ELSE 0
    IN  IF mean = trained /\ std = trained THEN raw ELSE Min(raw + 1, 2)

decision_function(name, trained, mean, std, features) ==
    [i \in 1 .. Len(features) |->
        RawScore(name, trained, mean, std, features[i])]

RECURSIVE SeqMin(_)
SeqMin(q) == IF Len(q) = 1 THEN q[1] ELSE Min(Head(q), SeqMin(Tail(q)))

RECURSIVE SeqMax(_)
SeqMax(q) == IF Len(q) = 1 THEN q[1] ELSE Max(Head(q), SeqMax(Tail(q)))

\* normalize_scores with a constant batch rescaled to 1.0 in place of 0.0
normalize_scores_ones(scores) ==
    LET min_s == SeqMin(scores)
        max_s == SeqMax(scores)
    IN  IF max_s - min_s < 1
        THEN [i \in 1 .. Len(scores) |-> Unit]
        ELSE [i \in 1 .. Len(scores) |->
                 ((scores[i] - min_s) * Unit) \div (max_s - min_s)]

\* normalize_scores: min-max rescaling over the rows of this call; raw
\* scores are whole numbers, so a range below 1e-8 is a range of 0
normalize_scores(scores) ==
    LET min_s == SeqMin(scores)
        max_s == SeqMax(scores)
    IN  IF max_s - min_s < 1
        THEN [i \in 1 .. Len(scores) |-> 0]
        ELSE [i \in 1 .. Len(scores) |->
                 ((scores[i] - min_s) * Unit) \div (max_s - min_s)]

\* the weighted combination of the three rescaled score arrays
Weighted(w, iforest_norm, lof_norm, knn_norm) ==
    [i \in 1 .. Len(iforest_norm) |->
        w[1] * iforest_norm[i] + w[2] * lof_norm[i] + w[3] * knn_norm[i]]

\* _get_ensemble_score with the raw score arrays already read
Ensemble(w, iforest_scores, lof_scores, knn_scores) ==
    Weighted(w, normalize_scores(iforest_scores), normalize_scores(lof_scores),
             normalize_scores(knn_scores))

\* _get_ensemble_score(data)
_get_ensemble_score(s, data) ==
    Ensemble(s.ensemble_weights,
             decision_function("iforest", s.iforest, s.feature_mean,
                               s.feature_std, data),
             decision_function("lof", s.lof, s.feature_mean, s.feature_std, data),
             decision_function("knn", s.knn, s.feature_mean, s.feature_std, data))

\* The z-score tests of _classify_threat on one row, against the stored
\* statistics: which of the three deviations are reported, in order.
Deviations(stats, row) ==
    CASE row = "outlier" ->
             <<"hashrate_deviation", "earnings_deviation", "high_reject_rate">>
      [] row = "spike" /\ stats # "d2" -> <<"hashrate_deviation">>
      [] OTHER -> <<>>

Has(q, x) == \E i \in 1 .. Len(q) : q[i] = x

_classify_threat(s, features, anomaly_score) ==
    LET contributing_factors == Deviations(s.feature_mean, features)
        threat ==
            IF Has(contributing_factors, "hashrate_deviation")
            THEN IF Has(contributing_factors, "earnings_deviation")
                 THEN "share_manipulation"
                 ELSE "hashrate_anomaly"
            ELSE IF Has(contributing_factors, "earnings_deviation")
            THEN "earnings_anomaly"
            ELSE IF Has(contributing_factors, "high_reject_rate")
            THEN "network_attack"
            ELSE IF anomaly_score * 10 > 8 * One
            THEN "unknown"
            ELSE "none"
    IN  [threat_type |-> threat, contributing_factors |-> contributing_factors]

\* the ladder with a strict comparison on its top rung
_determine_severity_strict(anomaly_score) ==
    IF anomaly_score * 10 > 9 * One THEN "critical"
    ELSE IF anomaly_score * 10 >= 7 * One THEN "high"
    ELSE IF anomaly_score * 10 >= 5 * One THEN "medium"
    ELSE IF anomaly_score * 10 >= 3 * One THEN "low"
    ELSE "low"

\* the thresholds are those of self.severity_thresholds: 0.9, 0.7, 0.5, 0.3
_determine_severity(anomaly_score) ==
    IF anomaly_score * 10 >= 9 * One THEN "critical"
    ELSE IF anomaly_score * 10 >= 7 * One THEN "high"
    ELSE IF anomaly_score * 10 >= 5 * One THEN "medium"
    ELSE IF anomaly_score * 10 >= 3 * One THEN "low"
    ELSE "low"

\* --------------------------------------------------------------- detection
\* threshold or default: a threshold of 0.0 is falsy, as None is
OrFloat(threshold, default) ==
    IF threshold.given /\ threshold.value # 0 THEN threshold.value ELSE default

\* AnomalyDetectionResult(...) as detect builds it, for every result
AnomalyDetectionResultUnmasked(is_anomaly, classified, severity, confidence, anomaly_score, timestamp) ==
    [is_anomaly |-> is_anomaly,
     threat_type |-> classified.threat_type,
     severity |-> severity,
     confidence |-> confidence,
     anomaly_score |-> anomaly_score,
     contributing_factors |-> classified.contributing_factors,
     timestamp |-> timestamp]

\* AnomalyDetectionResult(...) as detect builds it: threat and severity are
\* kept for anomalous results only; timestamp is the time of construction
AnomalyDetectionResult(is_anomaly, classified, severity, confidence, anomaly_score, timestamp) ==
    [is_anomaly |-> is_anomaly,
     threat_type |-> IF is_anomaly THEN classified.threat_type ELSE "none",
     severity |-> IF is_anomaly THEN severity ELSE "low",
     confidence |-> confidence,
     anomaly_score |-> anomaly_score,
     contributing_factors |-> classified.contributing_factors,
     timestamp |-> timestamp]

\* detect, from the scores on: threshold, verdict, classification, result
Verdict(s, anomaly_scores, features, threshold, timestamp) ==
    LET anomaly_score == anomaly_scores[1]
        feature_vector == features[1]
        limit == OrFloat(threshold, Unit - s.contamination)
        is_anomaly == anomaly_score > limit * Unit
        classified == _classify_threat(s, feature_vector, anomaly_score)
        severity == _determine_severity(anomaly_score)
        margin == Abs(anomaly_score - limit * Unit)
        confidence == Min(One, One \div 2 + margin)
    IN  AnomalyDetectionResult(is_anomaly, classified, severity, confidence,
                               anomaly_score, timestamp)

\* self._detection_history.pop() in place of pop(0): the newest entry goes
pop_last(detection_history) ==
    SubSeq(detection_history, 1, Len(detection_history) - 1)

\* self._detection_history.pop(0)
pop(detection_history) ==
    Tail(detection_history)

\* if len(self._detection_history) > self._max_history
Overflows(detection_history, max_history) ==
    Len(detection_history) > max_history

\* the result is stored: append, then pop(0) when the history is over capacity
Store(detection_history, max_history, result) ==
    LET longer == Append(detection_history, result)
    IN  IF Overflows(longer, max_history) THEN pop(longer) ELSE longer

Unfitted(detector) == detector \in {None, "unfitted"}

\* detect(features, threshold); features has one row for a vector (reshape)
\* and the rows of the array otherwise
detect(s, features, threshold) ==
    IF ~s.is_fitted
    THEN [s EXCEPT !.raised = "ValueError"]
    ELSE IF Unfitted(s.iforest) \/ Unfitted(s.lof) \/ Unfitted(s.knn)
    THEN [s EXCEPT !.raised = "NotFittedError"]
    ELSE IF Len(s.ensemble_weights) < 3
    THEN [s EXCEPT !.raised = "IndexError"]
    ELSE LET result == Verdict(s, _get_ensemble_score(s, features), features,
                               threshold, s.produced + 1)
         IN  [s EXCEPT !.detection_history =
                           Store(@, s.max_history, result),
                       !.produced = @ + 1,
                       !.ret = Append(@, result)]

\* detect_batch(features, threshold): detect on each row by itself; an
\* exception ends the loop and nothing is returned
RECURSIVE detect_batch(_, _, _)
detect_batch(s, features, threshold) ==
    IF features = <<>> THEN s
    ELSE LET first == detect(s, <<Head(features)>>, threshold)
         IN  IF first.raised # None
             THEN [first EXCEPT !.ret = <<>>]
             ELSE detect_batch(first, Tail(features), threshold)

\* ------------------------------------------------ calls of a single caller
\* The end of a call on the scorer: the fields take the values the method
\* computed; every result constructed was appended in its turn, after every
\* call that had returned.
ScorerReturn(method, argument, s) ==
    /\ contamination' = s.contamination
    /\ ensemble_weights' = s.ensemble_weights
    /\ _max_history' = s.max_history
    /\ _is_fitted' = s.is_fitted
    /\ _feature_mean' = s.feature_mean
    /\ _feature_std' = s.feature_std
    /\ _iforest' = s.iforest
    /\ _lof' = s.lof
    /\ _knn' = s.knn
    /\ fit_succeeded' = (fit_succeeded \/ (method = "fit" /\ s.raised = None))
    /\ _detection_history' = s.detection_history
    /\ produced' = s.produced
    /\ appended' = appended \o [i \in 1 .. s.produced - produced |-> produced + i]
    /\ precedes' = precedes \cup ((1 .. produced) \X (produced + 1 .. s.produced))
    /\ scall' = [op |-> method, arg |-> argument, raised |-> s.raised,
                 ret |-> s.ret]
    /\ UNCHANGED <<breaker, workers>>

\* What callers pass to SentinelAI(...): the default contamination or 0.5;
\* no weights, the weights of test_invalid_weights_raises_error, weights
\* summing to 1.002, to 1.001, weights with a negative entry, two weights;
\* no max_history or one of 1 .. MaxHistory.
Contaminations == {DefaultContamination, 5000}
WeightInputs ==
    {<<>>, <<5000, 5000, 5000>>, <<4000, 3000, 3020>>, <<4000, 3000, 3010>>,
     <<15000, -5000, 0>>, <<5000, 5000>>}
HistoryInputs == {Missing} \cup {Some(n) : n \in 1 .. MaxHistory}

\* at most one of the three arguments is not left at its default
OneAtATime(c, w, h) ==
    \/ w = <<>> /\ ~h.given
    \/ c = DefaultContamination /\ ~h.given
    \/ c = DefaultContamination /\ w = <<>>

Construct ==
    /\ constructed = "no"
    /\ \E c \in Contaminations, w \in WeightInputs, h \in HistoryInputs :
          /\ OneAtATime(c, w, h)
          /\ LET s == __init__(c, w, h)
             IN  /\ constructed' = IF s.raised = None THEN "yes" ELSE "raised"
                 /\ ScorerReturn("__init__",
                                 [contamination |-> c, ensemble_weights |-> w,
                                  max_history |-> h], s)

Fit ==
    /\ constructed = "yes"
    /\ \E data \in TrainingData :
          /\ ScorerReturn("fit", [data |-> data], fit(Scorer, data))
          /\ UNCHANGED constructed

\* the arrays of 1 .. MaxBatch rows; a vector is an array of one row
Batches == UNION {[1 .. n -> Rows] : n \in 1 .. MaxBatch}
\* no threshold, 0.0, 0.3
ThresholdInputs == {Missing, Some(0), Some(3000)}

\* detect(features, threshold) by a single caller
DetectCall(features, threshold) ==
    /\ constructed = "yes"
    /\ produced < MaxDetections
    /\ LET s == detect(Scorer, features, threshold)
       IN  ScorerReturn("detect", <<>>, s)
    /\ UNCHANGED constructed

Detect ==
    \E features \in Batches, threshold \in ThresholdInputs :
        DetectCall(features, threshold)

\* detect_batch(features, threshold) by a single caller
DetectBatchCall(features, threshold) ==
    /\ constructed = "yes"
    /\ produced + Len(features) <= MaxDetections
    /\ LET s == detect_batch(Scorer, features, threshold)
       IN  ScorerReturn("detect_batch", <<>>, s)
    /\ UNCHANGED constructed

DetectBatch ==
    \E features \in Batches \cup {<<>>}, threshold \in ThresholdInputs :
        DetectBatchCall(features, threshold)

InitScorer ==
    /\ failure_threshold = DefaultFailureThreshold
    /\ recovery_timeout = 0
    /\ half_open_max_calls = 1
    /\ InitBreaker

NextScorer ==
    \/ Construct
    \/ Fit
    \/ Detect
    \/ DetectBatch

SpecScorer == InitScorer /\ [][NextScorer]_vars

\* ------------------------------------------------ detect on single vectors
\* detect(features, threshold) with a feature vector: reshape(1, -1) makes it
\* an array of one row
DetectVector ==
    \E row \in Rows, threshold \in ThresholdInputs :
        DetectCall(<<row>>, threshold)

NextVector ==
    \/ Construct
    \/ Fit
    \/ DetectVector

SpecVector == InitScorer /\ [][NextVector]_vars

\* -------------------------------------------- the severity ladder by itself
\* The scores handed to _determine_severity: from -0.5 to 1.5 in steps of
\* 1/ScoreSteps, and each threshold of the ladder with the score just below
\* it and the score just above it.
ScoreInputs ==
    {k * (One \div ScoreSteps) :
        k \in (0 - ScoreSteps \div 2) .. (ScoreSteps + ScoreSteps \div 2)}
    \cup {b * (One \div 10) + d : b \in {3, 5, 7, 9}, d \in {-1, 0, 1}}

\* self._determine_severity(a) and self._determine_severity(b) on a scorer
\* that was just constructed, for two scores a <= b; the mapper reads the
\* thresholds alone, so one application per scorer covers it
DetermineSeverity ==
    /\ constructed = "yes"
    /\ scall.op = "__init__"
    /\ \E a \in ScoreInputs, b \in ScoreInputs :
          /\ a <= b
          /\ scall' = [op |-> "_determine_severity", arg |-> <<a, b>>,
                       raised |-> None,
                       ret |-> <<_determine_severity(a), _determine_severity(b)>>]
    /\ UNCHANGED <<breaker, settings, fitted, history, workers>>

NextSeverity ==
    \/ Construct
    \/ DetermineSeverity

SpecSeverity == InitScorer /\ [][NextSeverity]_vars

\* --------------------------------------------------- threads in the scorer
\* fit and detect take no lock. A thread inside fit, and the threads of the
\* serving layer's pool inside detect, advance one statement at a time.
Calling == {t \in Threads : dpc[t] # "idle"}

\* the results whose calls have returned
Returned == (1 .. produced) \ {dloc[t].result[1].timestamp :
                                  t \in {u \in Calling : dloc[u].result # <<>>}}

\* fit(data) begins
FitBegin(data) ==
    /\ constructed = "yes"
    /\ fpc = "idle"
    /\ fpc' = "mean"
    /\ fdata' = data
    /\ UNCHANGED <<breaker, settings, fitted, history, scall, dpc, dloc>>

\* self._feature_mean = np.mean(data, axis=0);
\* self._feature_std = np.std(data, axis=0)
FitStatistics ==
    /\ fpc \in {"mean", "std"}
    /\ IF fpc = "mean"
       THEN _feature_mean' = fdata /\ fpc' = "std" /\ UNCHANGED _feature_std
       ELSE _feature_std' = fdata /\ fpc' = "build_iforest"
                /\ UNCHANGED _feature_mean
    /\ UNCHANGED <<breaker, settings, _is_fitted, detectors, fit_succeeded,
                   history, scall, fdata, dpc, dloc>>

\* _build_detectors, an assignment at a time
FitBuild ==
    /\ fpc \in {"build_iforest", "build_lof", "build_knn"}
    /\ CASE fpc = "build_iforest" ->
                _iforest' = "unfitted" /\ fpc' = "build_lof"
                    /\ UNCHANGED <<_lof, _knn>>
         [] fpc = "build_lof" ->
                _lof' = "unfitted" /\ fpc' = "build_knn"
                    /\ UNCHANGED <<_iforest, _knn>>
         [] fpc = "build_knn" ->
                _knn' = "unfitted" /\ fpc' = "fit_iforest"
                    /\ UNCHANGED <<_iforest, _lof>>
    /\ UNCHANGED <<breaker, settings, _is_fitted, _feature_mean, _feature_std,
                   fit_succeeded, history, scall, fdata, dpc, dloc>>

\* the end of a call of fit
FitReturn(exception) ==
    /\ fpc' = "idle"
    /\ fdata' = None
    /\ scall' = [op |-> "fit", arg |-> [data |-> fdata], raised |-> exception,
                 ret |-> <<>>]

\* self._iforest.fit(...); self._lof.fit(...); self._knn.fit(...): the
\* first one raises on samples it does not accept
FitTrain ==
    /\ fpc \in {"fit_iforest", "fit_lof", "fit_knn"}
    /\ IF fdata = "nan"
       THEN FitReturn("ValueError") /\ UNCHANGED detectors
       ELSE /\ CASE fpc = "fit_iforest" ->
                       _iforest' = fdata /\ fpc' = "fit_lof"
                           /\ UNCHANGED <<_lof, _knn>>
                 [] fpc = "fit_lof" ->
                       _lof' = fdata /\ fpc' = "fit_knn"
                           /\ UNCHANGED <<_iforest, _knn>>
                 [] fpc = "fit_knn" ->
                       _knn' = fdata /\ fpc' = "fitted"
                           /\ UNCHANGED <<_iforest, _lof>>
            /\ UNCHANGED <<scall, fdata>>
    /\ UNCHANGED <<breaker, settings, _is_fitted, _feature_mean, _feature_std,
                   fit_succeeded, history, dpc, dloc>>

\* self._is_fitted = True; return self
FitEnd ==
    /\ fpc = "fitted"
    /\ _is_fitted' = TRUE
    /\ fit_succeeded' = TRUE
    /\ FitReturn(None)
    /\ UNCHANGED <<breaker, settings, _feature_mean, _feature_std, detectors,
                   history, dpc, dloc>>

DGoto(t, label) == dpc' = [dpc EXCEPT ![t] = label]

\* the end of a call of detect
DetectReturn(t, exception, results) ==
    /\ DGoto(t, "idle")
    /\ dloc' = [dloc EXCEPT ![t] = NoLocals]
    /\ scall' = [op |-> "detect", arg |-> <<>>, raised |-> exception,
                 ret |-> results]

\* detect(features, threshold) begins
DetectBegin(t, features, threshold) ==
    /\ constructed = "yes"
    /\ dpc[t] = "idle"
    /\ produced + Cardinality({u \in Calling : dloc[u].result = <<>>})
          < MaxDetections
    /\ DGoto(t, "check")
    /\ dloc' = [dloc EXCEPT ![t] = [NoLocals EXCEPT !.features = features,
                                                     !.threshold = threshold,
                                                     !.before = Returned]]
    /\ UNCHANGED <<breaker, settings, fitted, history, scall, fpc, fdata>>

\* if not self._is_fitted: raise ValueError
DetectCheck(t) ==
    /\ dpc[t] = "check"
    /\ IF _is_fitted
       THEN DGoto(t, "mean") /\ UNCHANGED <<dloc, scall>>
       ELSE DetectReturn(t, "ValueError", <<>>)
    /\ UNCHANGED <<breaker, settings, fitted, history, fpc, fdata>>

\* _normalize(data): self._feature_mean, then self._feature_std, is read
DetectNormalize(t) ==
    /\ dpc[t] \in {"mean", "std"}
    /\ IF dpc[t] = "mean"
       THEN /\ dloc' = [dloc EXCEPT ![t].mean = _feature_mean]
            /\ DGoto(t, "std")
       ELSE /\ dloc' = [dloc EXCEPT ![t].std = _feature_std]
            /\ DGoto(t, "iforest")
    /\ UNCHANGED <<breaker, settings, fitted, history, scall, fpc, fdata>>

\* self._iforest.decision_function(normalized), then self._lof, then
\* self._knn: a detector that was built and not trained yet raises
DetectScore(t) ==
    /\ dpc[t] \in {"iforest", "lof", "knn"}
    /\ LET detector == CASE dpc[t] = "iforest" -> _iforest
                         [] dpc[t] = "lof" -> _lof
                         [] dpc[t] = "knn" -> _knn
       IN  IF Unfitted(detector)
           THEN DetectReturn(t, "NotFittedError", <<>>)
           ELSE /\ CASE dpc[t] = "iforest" ->
                           /\ dloc' = [dloc EXCEPT ![t].iforest = detector]
                           /\ DGoto(t, "lof")
                     [] dpc[t] = "lof" ->
                           /\ dloc' = [dloc EXCEPT ![t].lof = detector]
                           /\ DGoto(t, "knn")
                     [] dpc[t] = "knn" ->
                           /\ dloc' = [dloc EXCEPT ![t].knn = detector]
                           /\ DGoto(t, "result")
                /\ UNCHANGED scall
    /\ UNCHANGED <<breaker, settings, fitted, history, fpc, fdata>>

\* the raw scores are rescaled and combined, the threshold applied, the
\* threat classified against the statistics now stored, the result built
DetectResult(t) ==
    /\ dpc[t] = "result"
    /\ LET l == dloc[t]
           anomaly_scores ==
               Ensemble(ensemble_weights,
                        decision_function("iforest", l.iforest, l.mean, l.std,
                                          l.features),
                        decision_function("lof", l.lof, l.mean, l.std,
                                          l.features),
                        decision_function("knn", l.knn, l.mean, l.std,
                                          l.features))
           result == Verdict(Scorer, anomaly_scores, l.features, l.threshold,
                             produced + 1)
       IN  /\ dloc' = [dloc EXCEPT ![t].result = <<result>>]
           /\ precedes' = precedes \cup (l.before \X {produced + 1})
    /\ produced' = produced + 1
    /\ DGoto(t, "append")
    /\ UNCHANGED <<breaker, settings, fitted, _detection_history, appended,
                   scall, fpc, fdata>>

\* self._detection_history.append(result)
DetectAppend(t) ==
    /\ dpc[t] = "append"
    /\ _detection_history' = Append(_detection_history, dloc[t].result[1])
    /\ appended' = Append(appended, dloc[t].result[1].timestamp)
    /\ DGoto(t, "overflow")
    /\ UNCHANGED <<breaker, settings, fitted, produced, precedes, scall,
                   fpc, fdata, dloc>>

\* if len(self._detection_history) > self._max_history
DetectOverflow(t) ==
    /\ dpc[t] = "overflow"
    /\ IF Overflows(_detection_history, _max_history)
       THEN DGoto(t, "pop")
       ELSE DGoto(t, "return")
    /\ UNCHANGED <<breaker, settings, fitted, history, scall, fpc, fdata, dloc>>

\* self._detection_history.pop(0)
DetectPop(t) ==
    /\ dpc[t] = "pop"
    /\ _detection_history' = pop(_detection_history)
    /\ DGoto(t, "return")
    /\ UNCHANGED <<breaker, settings, fitted, produced, appended, precedes,
                   scall, fpc, fdata, dloc>>

\* return result
DetectEnd(t) ==
    /\ dpc[t] = "return"
    /\ DetectReturn(t, None, dloc[t].result)
    /\ UNCHANGED <<breaker, settings, fitted, history, fpc, fdata>>

\* the steps of a thread inside detect
DetectStep(t) ==
    \/ DetectCheck(t)
    \/ DetectNormalize(t)
    \/ DetectScore(t)
    \/ DetectResult(t)
    \/ DetectAppend(t)
    \/ DetectOverflow(t)
    \/ DetectPop(t)
    \/ DetectEnd(t)

\* A scorer after SentinelAI(config={"max_history": capacity}) and
\* fit(data), with no call in progress.
Fitted(capacity, data) ==
    LET s == fit(__init__(DefaultContamination, <<>>, capacity), data)
    IN  /\ constructed = "yes"
        /\ contamination = s.contamination
        /\ ensemble_weights = s.ensemble_weights
        /\ _max_history = s.max_history
        /\ _is_fitted = s.is_fitted
        /\ _feature_mean = s.feature_mean
        /\ _feature_std = s.feature_std
        /\ _iforest = s.iforest
        /\ _lof = s.lof
        /\ _knn = s.knn
        /\ fit_succeeded = TRUE
        /\ _detection_history = <<>>
        /\ scall = [op |-> "fit", arg |-> [data |-> data], raised |-> None,
                    ret |-> <<>>]
        /\ produced = 0
        /\ appended = <<>>
        /\ precedes = {}
        /\ fpc = "idle"
        /\ fdata = None
        /\ dpc = [t \in Threads |-> "idle"]
        /\ dloc = [t \in Threads |-> NoLocals]

IdleBreaker ==
    /\ failure_threshold = DefaultFailureThreshold
    /\ recovery_timeout = 0
    /\ half_open_max_calls = 1
    /\ _failures = 0
    /\ _successes_in_half_open = 0
    /\ _state = "closed"
    /\ _last_failure_time = NoTime
    /\ _last_failure_reason = None
    /\ _lock = 0
    /\ _on_open_callbacks = <<>>
    /\ _on_close_callbacks = <<>>
    /\ _on_half_open_callbacks = <<>>
    /\ now = 0
    /\ call = NoCall
    /\ run = FreshRun
    /\ episode = NoEpisode
    /\ pc = [t \in Threads |-> "idle"]
    /\ op = [t \in Threads |-> "none"]
    /\ arg = [t \in Threads |-> None]
    /\ tmp = [t \in Threads |-> 0]
    /\ ret = [t \in Threads |-> None]
    /\ done = [record_failure |-> 0, other |-> FALSE, overlap |-> FALSE]
    /\ snap = [t \in Threads |-> NoFields]

\* A scorer with a configured capacity, fitted on the first training set, is
\* fitted again on the second while the other threads call detect on an
\* array of two rows, a spike and an ordinary one: the two fits score its
\* first row differently.
Probe == <<"spike", "normal">>

InitRefit ==
    /\ IdleBreaker
    /\ \E capacity \in 1 .. MaxHistory : Fitted(Some(capacity), "d1")

NextRefit ==
    \/ FitBegin("d2")
    \/ FitStatistics
    \/ FitBuild
    \/ FitTrain
    \/ FitEnd
    \/ \E t \in Threads :
          \/ DetectBegin(t, Probe, Missing)
          \/ DetectStep(t)

SpecRefit == InitRefit /\ [][NextRefit]_vars

\* InferenceEngine.detect_anomaly: the pool's threads call detect with one
\* feature vector each and no threshold, on a fitted scorer with a
\* configured capacity.
Vectors == {<<row>> : row \in Rows}

InitServing ==
    /\ IdleBreaker
    /\ \E capacity \in 1 .. MaxHistory : Fitted(Some(capacity), "d1")

NextServing ==
    \E t \in Threads :
        \/ \E features \in Vectors : DetectBegin(t, features, Missing)
        \/ DetectStep(t)

SpecServing == InitServing /\ [][NextServing]_vars

\* --------------------------------------------------- claims on the scorer
Entries(q) == {q[i] : i \in 1 .. Len(q)}

C12_DetectBeforeFitRaises ==
    [][~fit_succeeded =>
          \A f \in Batches, t \in ThresholdInputs :
              (DetectCall(f, t) \/ DetectBatchCall(f, t)) =>
                  /\ scall'.raised = "ValueError"
                  /\ scall'.ret = <<>>
                  /\ _detection_history' = _detection_history
                  /\ produced' = produced]_vars

\* detect was refused on a scorer whose only fit had failed
C12_Witness ==
    /\ scall.op = "detect"
    /\ scall.raised = "ValueError"
    /\ ~fit_succeeded
    /\ _feature_mean = "nan"

\* the threshold C13 describes: the one supplied, else 1 - contamination
SuppliedOrDefault(t) == IF t.given THEN t.value ELSE Unit - contamination

\* C13: for every detect call, is_anomaly is true iff anomaly_score >
\* threshold, the threshold being the caller's whenever one is supplied (0.0
\* included) and 1 - contamination otherwise (0.9 for contamination 0.1).
C13_ThresholdRule ==
    [][\A f \in Batches, t \in ThresholdInputs :
          (DetectCall(f, t) /\ scall'.raised = None) =>
              /\ scall'.ret[1].is_anomaly
                    = (scall'.ret[1].anomaly_score > SuppliedOrDefault(t) * Unit)
              /\ (~t.given /\ contamination = 1000)
                    => SuppliedOrDefault(t) = 9000]_vars

\* C14: every result detect has produced, returned or kept in the history,
\* that is not anomalous has threat type NONE and severity LOW.
C14_NonAnomalousIsNoneLow ==
    \A r \in Entries(scall.ret) \cup Entries(_detection_history) :
        ~r.is_anomaly => (r.threat_type = "none" /\ r.severity = "low")

\* a result that is not anomalous although the classifier reported a
\* hashrate deviation and the ladder puts its score at MEDIUM or above
C14_Witness ==
    \E r \in Entries(_detection_history) :
        /\ ~r.is_anomaly
        /\ Has(r.contributing_factors, "hashrate_deviation")
        /\ _determine_severity(r.anomaly_score) # "low"

\* the rows of a batch differ in the raw score of some detector
RowsDiffer(f) ==
    \E i \in 1 .. 3 :
        LET raw == decision_function(Detectors[i], _iforest, _feature_mean,
                                     _feature_std, f)
        IN  SeqMin(raw) # SeqMax(raw)

Scores(q) == [i \in 1 .. Len(q) |-> q[i].anomaly_score]

\* the scores of detect called once per row of the batch
PerRow(f, t) ==
    [i \in 1 .. Len(f) |-> detect(Scorer, <<f[i]>>, t).ret[1].anomaly_score]

\* C15: detect_batch rescales the raw scores jointly over the rows of the
\* batch, so when the rows differ in their raw scores the scores it returns
\* are not the scores of detect called once per row.
C15_BatchRescalesJointly ==
    [][\A f \in Batches, t \in ThresholdInputs :
          (DetectBatchCall(f, t) /\ scall'.raised = None /\ RowsDiffer(f)) =>
              /\ Scores(scall'.ret) = _get_ensemble_score(Scorer, f)
              /\ Scores(scall'.ret) # PerRow(f, t)]_vars

\* C16: a scorer with the default settings, fitted on the standard-normal
\* training set, finds the vector of all 10.0's anomalous, with a score
\* near 1.0 (at least 0.9) and severity HIGH or CRITICAL.
C16_OutlierIsDetected ==
    [][(DetectCall(<<"outlier">>, Missing) /\ _iforest = "d1"
            /\ ensemble_weights = DefaultWeights /\ contamination = 1000) =>
          /\ scall'.ret[1].is_anomaly
          /\ scall'.ret[1].anomaly_score * 10 >= 9 * One
          /\ scall'.ret[1].severity \in {"high", "critical"}]_vars

\* C17: for a scorer whose weights were accepted, whatever the batch, every
\* rescaled detector score lies in [0, 1] and so does every ensemble score.
C17_ScoresInUnitInterval ==
    [][\A f \in Batches, t \in ThresholdInputs :
          (DetectCall(f, t) /\ scall'.raised = None) =>
              /\ \A d \in 1 .. 3, i \in 1 .. Len(f) :
                    LET norm == normalize_scores(decision_function(
                                    Detectors[d], _iforest, _feature_mean,
                                    _feature_std, f))
                    IN  0 <= norm[i] /\ norm[i] <= Unit
              /\ \A i \in 1 .. Len(f) :
                    /\ 0 <= _get_ensemble_score(Scorer, f)[i]
                    /\ _get_ensemble_score(Scorer, f)[i] <= One
              /\ 0 <= scall'.ret[1].anomaly_score
              /\ scall'.ret[1].anomaly_score <= One]_vars

\* C18: SentinelAI(...) with weights whose sum is more than 0.001 away from
\* 1.0 raises (ValueError) and leaves no scorer; with weights whose sum is
\* within 0.001 of 1.0, or with none (the defaults), it returns a scorer.
C18_WeightsAreValidated ==
    /\ scall.op = "__init__" =>
          LET w == IF scall.arg.ensemble_weights = <<>> THEN <<4000, 3000, 3000>>
                   ELSE scall.arg.ensemble_weights
              off == sum(w) - 10000
          IN  IF off > 10 \/ off < -10
              THEN scall.raised = "ValueError" /\ constructed = "raised"
              ELSE scall.raised = None /\ constructed = "yes"
                      /\ ensemble_weights = w
    /\ constructed = "raised" => (ensemble_weights = <<>> /\ ~_is_fitted)

\* the construction of test_invalid_weights_raises_error has raised
C18_Witness ==
    /\ scall.op = "__init__"
    /\ scall.arg.ensemble_weights = <<5000, 5000, 5000>>
    /\ constructed = "raised"

\* the threads whose detect has computed its score
Scored == {t \in Threads : dpc[t] \in {"append", "overflow", "pop", "return"}}

\* C19: a detect that runs while fit is called again computes its score
\* from one fit alone, the old one or the new one: the mean, the std and the
\* three detectors it read all come from the same training set, and it never
\* meets a detector that was built and is not trained yet.
C19_RefitIsAtomic ==
    /\ \A t \in Scored :
          /\ dloc[t].mean = dloc[t].std
          /\ dloc[t].iforest = dloc[t].mean
          /\ dloc[t].lof = dloc[t].mean
          /\ dloc[t].knn = dloc[t].mean
    /\ ~(scall.op = "detect" /\ scall.raised = "NotFittedError")

Position(x) == CHOOSE i \in 1 .. Len(appended) : appended[i] = x

\* C20: when the threads of the pool call detect on one fitted scorer, then
\* once every call has returned each of the n results produced was appended
\* once, a call that had returned before another began was appended before
\* it, and the history holds the last min(n, max_history) of them in that
\* order: nothing is lost below capacity and the capacity is kept.
C20_ConcurrentAppendsAreSafe ==
    Calling = {} =>
        LET n == produced
            k == Len(_detection_history)
        IN  /\ Len(appended) = n
            /\ {appended[i] : i \in 1 .. n} = 1 .. n
            /\ \A p \in precedes : Position(p[1]) < Position(p[2])
            /\ k = Min(n, _max_history)
            /\ \A i \in 1 .. k :
                  _detection_history[i].timestamp = appended[n - k + i]

\* every call has returned, more results were produced than the history
\* holds, and two calls overlapped: the later result was appended first
C20_Witness ==
    /\ Calling = {}
    /\ produced > _max_history
    /\ Len(_detection_history) = _max_history
    /\ \E i \in 1 .. Len(appended) - 1 : appended[i] > appended[i + 1]

\* LOW < MEDIUM < HIGH < CRITICAL
Rank(severity) ==
    CASE severity = "low" -> 1
      [] severity = "medium" -> 2
      [] severity = "high" -> 3
      [] severity = "critical" -> 4

\* C21: the severity mapper returns CRITICAL for a score >= 0.9, HIGH for
\* 0.7 <= score < 0.9, MEDIUM for 0.5 <= score < 0.7 and LOW for every score
\* below 0.5, and for two scores a <= b the severity of a is not above the
\* severity of b.
C21_SeverityLadder ==
    scall.op = "_determine_severity" =>
        /\ \A i \in 1 .. 2 :
              LET score == scall.arg[i]
                  severity == scall.ret[i]
              IN  /\ score * 10 >= 9 * One => severity = "critical"
                  /\ (score * 10 >= 7 * One /\ score * 10 < 9 * One)
                        => severity = "high"
                  /\ (score * 10 >= 5 * One /\ score * 10 < 7 * One)
                        => severity = "medium"
                  /\ score * 10 < 5 * One => severity = "low"
        /\ scall.arg[1] <= scall.arg[2]
        /\ Rank(scall.ret[1]) <= Rank(scall.ret[2])

\* the mapper was applied to a score just below 0.3 and to the score 0.9
C21_Witness ==
    /\ scall.op = "_determine_severity"
    /\ scall.arg = <<3 * (One \div 10) - 1, 9 * (One \div 10)>>
    /\ scall.ret = <<"low", "critical">>

\* ------------------------------------------ further claims on the breaker
\* C22: the breaker has no timer: the stored state goes from Open to
\* HalfOpen only inside a read (is_open, state, can_execute, get_state),
\* never by the clock advancing and never inside record_success or
\* record_failure; a success received while the stored state is Open, also
\* after recovery_timeout has elapsed, changes no field and invokes no
\* listener, and the half-open episode a later read starts counts from 0.
C22_NoTimer ==
    /\ (call.pre.state = "open" /\ _state = "half_open") =>
          (call.op \in Reads /\ _successes_in_half_open = 0)
    /\ call.op = "tick" => Fields(Self) = call.pre
    /\ (IsSuccess(call.op, call.arg) /\ call.pre.state = "open") =>
          (Fields(Self) = call.pre /\ call.log = <<>>)
    /\ (IsFailure(call.op, call.arg) /\ call.pre.state = "open") =>
          _state = "open"

\* a success was recorded while Open after recovery_timeout had elapsed
C22_Witness ==
    /\ call.op = "record_success" /\ call.pre.state = "open"
    /\ recovery_timeout = 1
    /\ call.at - call.pre.last_failure_time >= recovery_timeout
    /\ _state = "open" /\ Fields(Self) = call.pre

\* C23: after every record_failure(reason) received while Closed, get_state
\* reports last_failure set (the time of that failure) and reason equal to
\* the reason passed, also when the count is still below failure_threshold.
C23_ClosedFailureRecordsReason ==
    (call.op = "record_failure" /\ call.pre.state = "closed") =>
        LET reported == get_state_result(_check_state_transition(Self))
        IN  /\ reported.last_failure # NoTime
            /\ reported.last_failure = call.at
            /\ reported.reason = call.arg

\* C24: process_detection given an anomalous result of severity LOW (weight
\* 0.5, truncated to 0) records neither a failure nor a success: in every
\* breaker state the five fields are unchanged and no listener is invoked.
C24_LowAnomalyChangesNothing ==
    /\ int(severity_weight("low")) = 0
    /\ (call.op = "process_detection" /\ call.arg.is_anomaly
            /\ call.arg.severity = "low") =>
          /\ Fields(Self) = call.pre
          /\ call.log = <<>>
          /\ call.errors = 0
          /\ ~call.raised

\* a LOW anomaly was processed by a HalfOpen breaker with an on_open listener
C24_Witness ==
    /\ call.op = "process_detection" /\ call.arg.is_anomaly
    /\ call.arg.severity = "low"
    /\ call.pre.state = "half_open" /\ _state = "half_open"
    /\ Len(_on_open_callbacks) > 0

\* a LOW anomaly was processed by an Open breaker
C24_WitnessOpen ==
    /\ call.op = "process_detection" /\ call.arg.is_anomaly
    /\ call.arg.severity = "low"
    /\ call.pre.state = "open" /\ _state = "open"

\* C25: when detect scores a single feature vector, every detector's
\* rescaled score is 0 (the range max - min is 0), so the anomaly score is 0
\* whatever the raw scores are, and the result is not anomalous for every
\* threshold above 0 and for the default threshold (the thresholds passed
\* are none, 0.3, and 0.0, which detect replaces by the default).
C25_SingleVectorScoresZero ==
    /\ \A d \in 1 .. 3, row \in Rows :
          normalize_scores(decision_function(
              Detectors[d], _iforest, _feature_mean, _feature_std,
              <<row>>)) = <<0>>
    /\ (scall.op = "detect" /\ scall.raised = None) =>
          /\ scall.ret[1].anomaly_score = 0
          /\ ~scall.ret[1].is_anomaly

\* detect has scored the far outlier by itself: score 0, not anomalous
C25_Witness ==
    /\ scall.op = "detect" /\ scall.raised = None
    /\ scall.ret[1].contributing_factors
          = <<"hashrate_deviation", "earnings_deviation", "high_reject_rate">>
    /\ scall.ret[1].anomaly_score = 0
    /\ ~scall.ret[1].is_anomaly

\* C26: for a breaker built with failure_threshold >= 1 and
\* half_open_max_calls >= 1, after any sequence of public calls: the state is
\* closed, open or half_open; closed implies 0 <= failures <
\* failure_threshold; open or half_open implies failures >= failure_threshold
\* and lastFailureTime set; and 0 <= half-open successes < half_open_max_calls.
C26_FieldsInvariant ==
    (failure_threshold >= 1 /\ half_open_max_calls >= 1) =>
        /\ _state \in {"closed", "open", "half_open"}
        /\ _state = "closed" => (0 <= _failures /\ _failures < failure_threshold)
        /\ _state \in {"open", "half_open"} =>
              (_failures >= failure_threshold /\ _last_failure_time # NoTime)
        /\ 0 <= _successes_in_half_open
        /\ _successes_in_half_open < half_open_max_calls

\* a HalfOpen breaker one success short of closing, reopened once before
C26_Witness ==
    /\ _state = "half_open"
    /\ half_open_max_calls = 2 /\ _successes_in_half_open = 1
    /\ _failures > failure_threshold
    /\ call.op = "process_detection"

\* C27: a record_failure received while Open still increments the failure
\* count and overwrites lastFailureTime, which is therefore always the time
\* of the most recent failure; a read made while Open finds the breaker
\* HalfOpen exactly when recovery_timeout has elapsed since that time, so
\* failures arriving at shorter intervals keep it Open, and once they stop a
\* read made recovery_timeout later finds it HalfOpen.
C27_FailureWhileOpenPostpones ==
    /\ (call.op = "record_failure" /\ call.pre.state = "open") =>
          /\ _state = "open"
          /\ _failures = call.pre.failures + 1
          /\ _last_failure_time = call.at
    /\ _failures > call.pre.failures => _last_failure_time = call.at
    /\ _last_failure_time # call.pre.last_failure_time =>
          IsFailure(call.op, call.arg)
    /\ (call.op \in Reads /\ call.pre.state = "open") =>
          /\ _last_failure_time = call.pre.last_failure_time
          /\ _state = (IF call.at - _last_failure_time >= recovery_timeout
                       THEN "half_open" ELSE "open")

\* a failure arrived while Open when recovery_timeout had elapsed since the
\* failure before it: the breaker is Open and a read now would find it Open
C27_Witness ==
    /\ call.op = "record_failure" /\ call.pre.state = "open"
    /\ recovery_timeout = 1
    /\ call.at - call.pre.last_failure_time >= recovery_timeout
    /\ _last_failure_time = call.at
    /\ _state = "open" /\ IsOpenNow

\* C28: the on_open listeners are invoked exactly once for each change of
\* state into Open (from Closed or from HalfOpen); a record_failure that
\* arrives while the breaker is already Open invokes none of them and leaves
\* lastFailureReason as it was; so one process_detection of a HIGH or
\* CRITICAL anomaly notifies each on_open listener at most once.
C28_OnOpenOncePerOpening ==
    IsFailure(call.op, call.arg) =>
        LET opened == call.pre.state # "open" /\ _state = "open"
        IN  /\ call.log = Passes(_on_open_callbacks, "open",
                                 IF opened THEN 1 ELSE 0)
            /\ call.pre.state = "open" =>
                  _last_failure_reason = call.pre.last_failure_reason

\* C29: every call to a public method of the breaker returns, a call made
\* by a registered listener from inside its own callback included: no thread
\* is ever left asking for the mutex that it holds itself, which is a call
\* that cannot return.
C29_EveryCallReturns ==
    \A t \in Threads : pc[t] = "lock" => _lock # t

\* C30: reset() called in any state leaves the breaker Closed with failure
\* count 0, half-open success count 0 and lastFailureReason cleared, invokes
\* the on_close listeners (also when the breaker was Closed already) and
\* leaves lastFailureTime as it was; the breaker then needs
\* failure_threshold new failures to open again.
C30_ResetClosesAndClears ==
    call.op = "reset" =>
        /\ _state = "closed"
        /\ _failures = 0
        /\ _successes_in_half_open = 0
        /\ _last_failure_reason = None
        /\ _last_failure_time = call.pre.last_failure_time
        /\ call.log = Pass(_on_close_callbacks, "close")
        /\ call.errors = Raising(_on_close_callbacks)
        /\ ~call.raised
        /\ \A k \in 1 .. failure_threshold :
              record_failures(Self, "r1", k).state
                  = (IF k >= failure_threshold THEN "open" ELSE "closed")

\* a breaker with failure_threshold = 3 was reset from Open
C30_Witness ==
    /\ call.op = "reset" /\ call.pre.state = "open"
    /\ failure_threshold = 3 /\ call.pre.failures >= 3
    /\ call.pre.last_failure_time # NoTime
    /\ _last_failure_time = call.pre.last_failure_time
    /\ call.log = <<<<"close", 1>>, <<"close", 2>>>>

====
